---- MODULE Spec2Model ----
(***************************************************************************)
(* Model of tutorials/gstreamer00: the ownership wrappers of               *)
(* gstreamer.hpp and the driver tutorial_main of gstreamer00.cpp.          *)
(*                                                                         *)
(* The GStreamer library is the environment.  Every value it hands back    *)
(* (element, error, bus, state-change result, message) is chosen           *)
(* nondeterministically from what its C API can return.  Each call the     *)
(* program makes on the library, each line it prints and each release of   *)
(* a native resource is appended to the history `calls`.                   *)
(***************************************************************************)
EXTENDS Integers, Sequences, FiniteSets

\* Largest number of messages pending on the bus.
MaxQueue == 2

-----------------------------------------------------------------------------
(* Raw handles.  NULL is the null pointer; the other names are the native  *)
(* objects the library can hand out.                                       *)

NULL == "NULL"

GstElementHandle == "element"      \* GstElement* from gst_parse_launch
GErrorHandle == "gerror"           \* GError* from gst_parse_launch
GstBusHandle == "bus"              \* GstBus* from gst_element_get_bus
GstMessageHandle == "message"      \* GstMessage* from gst_bus_timed_pop_filtered
MsgErrorHandle == "msg_gerror"     \* GError* from gst_message_parse_error
DebugInfoHandle == "debug_info"    \* gchar* from gst_message_parse_error

EXIT_SUCCESS == "EXIT_SUCCESS"
EXIT_FAILURE == "EXIT_FAILURE"

GST_STATE_CHANGE_FAILURE == "GST_STATE_CHANGE_FAILURE"
GstStateChangeReturn ==
  {GST_STATE_CHANGE_FAILURE, "GST_STATE_CHANGE_SUCCESS", "GST_STATE_CHANGE_ASYNC",
   "GST_STATE_CHANGE_NO_PREROLL"}

-----------------------------------------------------------------------------
(* enum class MessageType and its bitwise operators.                       *)

EOS == 1
Error == 2
Warning == 4
StateChanged == 64

MessageType == {EOS, Error, Warning, StateChanged}

RECURSIVE BitOr(_, _)
BitOr(a, b) ==
  IF a = 0 THEN b
  ELSE IF b = 0 THEN a
  ELSE (IF a % 2 = 1 \/ b % 2 = 1 THEN 1 ELSE 0) + 2 * BitOr(a \div 2, b \div 2)

RECURSIVE BitAnd(_, _)
BitAnd(a, b) ==
  IF a = 0 \/ b = 0 THEN 0
  ELSE (a % 2) * (b % 2) + 2 * BitAnd(a \div 2, b \div 2)

\* A plausible slip: the mask is built with & instead of |.
OpOrAsAnd(lhs, rhs) == BitAnd(lhs, rhs)

\* constexpr MessageType operator|(MessageType lhs, MessageType rhs)
OpOr(lhs, rhs) == BitOr(lhs, rhs)

-----------------------------------------------------------------------------
(* Messages the library posts on the bus.  `has_error` says whether        *)
(* gst_message_parse_error finds a GError in the message; `text` is that   *)
(* GError's message, `debug` the debug string (NULL when there is none).   *)

ErrorTexts == {"", "Resource not found."}
DebugTexts == {NULL, "gstsouphttpsrc.c(1000)"}

NoPayload(t) == [type |-> t, has_error |-> FALSE, text |-> "", debug |-> NULL]

Messages ==
  {NoPayload(t) : t \in MessageType}
    \cup {[type |-> Error, has_error |-> TRUE, text |-> x, debug |-> d] :
            x \in ErrorTexts, d \in DebugTexts}

NoMessage == NoPayload(0)

-----------------------------------------------------------------------------
VARIABLES
  pc,               \* position of tutorial_main
  pipeline_result,  \* nonstd::expected<Element, ErrorPtr> of line 25
  pipeline,         \* raw handle owned by `pipeline` (line 32)
  bus,              \* raw handle owned by `bus` (line 40)
  msg_ptr,          \* raw handle owned by `msg_ptr` (line 58)
  message,          \* the GstMessage msg_ptr points to
  parse_result,     \* result of message_parse_error (line 61)
  queue,            \* messages pending on the pipeline's bus
  handed_out,       \* native objects the library has handed to the program
  calls,            \* history of library calls, prints and releases
  exit_code,        \* value returned by tutorial_main
  ret_line          \* source line of the return statement taken

vars ==
  <<pc, pipeline_result, pipeline, bus, msg_ptr, message, parse_result, queue,
    handed_out, calls, exit_code, ret_line>>

Call(op, h, arg, ret) == [op |-> op, h |-> h, arg |-> arg, ret |-> ret]

\* fmt::print of one line, named by its format string.
FmtPrint(line) == Call("fmt::print", NULL, line, "")

-----------------------------------------------------------------------------
(* Deleters: each releases the native object unless the pointer is null.   *)

\* GstElementDeleter::operator()
GstElementDeleter(element) ==
  IF NULL # element THEN <<Call("gst_object_unref", element, "", "")>> ELSE <<>>

\* GstBusDeleter::operator()
GstBusDeleter(b) ==
  IF NULL # b THEN <<Call("gst_object_unref", b, "", "")>> ELSE <<>>

\* GstErrorDeleter::operator()
GstErrorDeleter(error) ==
  IF NULL # error THEN <<Call("g_error_free", error, "", "")>> ELSE <<>>

\* GstMessageDeleter::operator()
GstMessageDeleter(m) ==
  IF NULL # m THEN <<Call("gst_message_unref", m, "", "")>> ELSE <<>>

\* ~expected<Element, ErrorPtr>: destroys the alternative it holds.
DestroyResult(r) ==
  IF r.has_value THEN GstElementDeleter(r.value) ELSE GstErrorDeleter(r.error)

\* Scope exit on the return of line 29: the local `error` of line 27, then
\* pipeline_result.
ScopeExit29(error, result) == GstErrorDeleter(error) \o DestroyResult(result)

\* A plausible slip: the bus is declared after the message, so it is destroyed
\* first.
ScopeExitBusFirst(m, b, element, result) ==
  GstBusDeleter(b) \o GstMessageDeleter(m) \o GstElementDeleter(element)
    \o DestroyResult(result)

\* Scope exit on every later return: locals are destroyed in reverse order of
\* declaration: msg_ptr (58), msg (49, holds no handle once moved from),
\* bus (40), pipeline (32), pipeline_result (25).
ScopeExit(m, b, element, result) ==
  GstMessageDeleter(m) \o GstBusDeleter(b) \o GstElementDeleter(element)
    \o DestroyResult(result)

-----------------------------------------------------------------------------
(* The wrapper functions of gstreamer.hpp, as functions of what the        *)
(* library returned.                                                       *)

\* parse_launch: element and error are what gst_parse_launch returned.
parse_launch(element, error) ==
  IF NULL # error
    THEN [has_value |-> FALSE, value |-> NULL, error |-> error]
    ELSE [has_value |-> TRUE, value |-> element, error |-> NULL]

\* GST_STR_NULL(str)
GST_STR_NULL(str) == IF str = NULL THEN "(NULL)" ELSE str

NotParsed ==
  [called |-> FALSE, has_value |-> FALSE, first |-> "", second |-> "", error |-> ""]

\* A plausible slip: the null check on the extracted GError is missing, and a
\* pair is built although the message carries no error.
message_parse_error_unchecked(m) ==
  [called |-> TRUE, has_value |-> TRUE, first |-> m.text,
   second |-> GST_STR_NULL(m.debug), error |-> ""]

\* message_parse_error: the value returned for message m.
message_parse_error(m) ==
  IF ~m.has_error
    THEN [called |-> TRUE, has_value |-> FALSE, first |-> "", second |-> "",
          error |-> "No error found in message"]
    ELSE [called |-> TRUE, has_value |-> TRUE, first |-> m.text,
          second |-> GST_STR_NULL(m.debug), error |-> ""]

\* What gst_message_parse_error stores in *error and *debug for message m.
ExtractedError(m) == IF m.has_error THEN MsgErrorHandle ELSE NULL
ExtractedDebug(m) == IF m.debug # NULL THEN DebugInfoHandle ELSE NULL

\* message_parse_error: the library calls it makes on message handle h.
message_parse_error_calls(h, m) ==
  <<Call("gst_message_parse_error", h, ExtractedDebug(m), ExtractedError(m))>>
    \o (IF NULL = ExtractedError(m)
          THEN <<>>
          ELSE <<Call("g_error_free", ExtractedError(m), "", ""),
                 Call("g_free", ExtractedDebug(m), "", "")>>)

\* message_type
message_type(m) == m.type

\* bus_timed_pop_filtered: msg is what gst_bus_timed_pop_filtered returned.
bus_timed_pop_filtered(msg) ==
  IF NULL = msg
    THEN [has_value |-> FALSE, value |-> NULL, error |-> "No message received from bus"]
    ELSE [has_value |-> TRUE, value |-> msg, error |-> ""]

\* The mask tutorial_main waits for (line 49).
WaitTypes == OpOr(Error, EOS)

\* The library's filter: a pending message ends the wait iff its type is in
\* the mask.
Matches(m, types) == BitAnd(m.type, types) # 0

-----------------------------------------------------------------------------
Init ==
  /\ pc = "start"
  /\ pipeline_result = [has_value |-> FALSE, value |-> NULL, error |-> NULL]
  /\ pipeline = NULL
  /\ bus = NULL
  /\ msg_ptr = NULL
  /\ message = NoMessage
  /\ parse_result = NotParsed
  /\ queue = <<>>
  /\ handed_out = {}
  /\ calls = <<>>
  /\ exit_code = "none"
  /\ ret_line = 0

\* return <code>; at source line <line>, after the destructors in `released`.
Return(code, line, released) ==
  /\ pc' = "done"
  /\ exit_code' = code
  /\ ret_line' = line
  /\ calls' = calls \o released

\* Lines 20-32: build the pipeline.
BuildPipeline(element, error) ==
  /\ pc = "start"
  /\ LET r == parse_launch(element, error)
         made == <<Call("gst_init", NULL, "", ""),
                   Call("gst_parse_launch", NULL, element, error),
                   Call("parse_launch", NULL,
                        IF r.has_value THEN "value" ELSE "error",
                        IF r.has_value THEN r.value ELSE r.error)>>
     IN /\ handed_out' = handed_out \cup ({element, error} \ {NULL})
        /\ IF ~r.has_value
             THEN \* line 27 moves the ErrorPtr out of pipeline_result
                  /\ pipeline_result' = [r EXCEPT !.error = NULL]
                  /\ pc' = "done"
                  /\ exit_code' = EXIT_FAILURE
                  /\ ret_line' = 29
                  /\ calls' = calls \o made \o <<FmtPrint("Failed to create pipeline")>>
                                \o ScopeExit29(r.error, [r EXCEPT !.error = NULL])
                  /\ UNCHANGED pipeline
             ELSE \* line 32 moves the Element out of pipeline_result
                  /\ pipeline_result' = [r EXCEPT !.value = NULL]
                  /\ pipeline' = r.value
                  /\ pc' = "built"
                  /\ calls' = calls \o made
                  /\ UNCHANGED <<exit_code, ret_line>>
  /\ UNCHANGED <<bus, msg_ptr, message, parse_result, queue>>

\* gst_element_set_state on a null element fails its precondition check and
\* reports failure; on a live element any result is possible.
SetStateResults(element) ==
  IF element = NULL THEN {GST_STATE_CHANGE_FAILURE} ELSE GstStateChangeReturn

\* Lines 34-37: start playing.
StartPlaying(r) ==
  /\ pc = "built"
  /\ r \in SetStateResults(pipeline)
  /\ LET made == <<Call("gst_element_set_state", pipeline, "GST_STATE_PLAYING", r)>>
     IN IF GST_STATE_CHANGE_FAILURE = r
          THEN Return(EXIT_FAILURE, 36,
                      made \o <<FmtPrint("Unable to set the pipeline to the playing state.")>>
                        \o ScopeExit(NULL, NULL, pipeline, pipeline_result))
          ELSE /\ pc' = "playing"
               /\ calls' = calls \o made
               /\ UNCHANGED <<exit_code, ret_line>>
  /\ UNCHANGED <<pipeline_result, pipeline, bus, msg_ptr, message, parse_result,
                 queue, handed_out>>

\* The best-effort stop of lines 43-45 and 52-54: the call and, when it
\* fails, the warning.
BestEffortNull(element, r) ==
  <<Call("gst_element_set_state", element, "GST_STATE_NULL", r)>>
    \o (IF r = GST_STATE_CHANGE_FAILURE
          THEN <<FmtPrint("Unable to set the pipeline to the NULL state.")>>
          ELSE <<>>)

\* Line 40 with a bus, and line 41 not taken.
GetBus ==
  /\ pc = "playing"
  /\ bus' = GstBusHandle
  /\ handed_out' = handed_out \cup {GstBusHandle}
  /\ calls' = calls \o <<Call("gst_element_get_bus", pipeline, "", GstBusHandle)>>
  /\ pc' = "waiting"
  /\ UNCHANGED <<pipeline_result, pipeline, msg_ptr, message, parse_result, queue,
                 exit_code, ret_line>>

\* Lines 40-47: gst_element_get_bus returns no bus.
GetBusNull(r) ==
  /\ pc = "playing"
  /\ r \in SetStateResults(pipeline)
  /\ bus' = NULL
  /\ Return(EXIT_FAILURE, 46,
            <<Call("gst_element_get_bus", pipeline, "", NULL),
              FmtPrint("Unable to get the bus from the pipeline.")>>
              \o BestEffortNull(pipeline, r)
              \o ScopeExit(NULL, NULL, pipeline, pipeline_result))
  /\ UNCHANGED <<pipeline_result, pipeline, msg_ptr, message, parse_result, queue,
                 handed_out>>

\* The library posts a message on the bus of the playing pipeline.
Post(m) ==
  /\ pc \in {"playing", "waiting"}
  /\ Len(queue) < MaxQueue
  /\ queue' = Append(queue, m)
  /\ UNCHANGED <<pc, pipeline_result, pipeline, bus, msg_ptr, message, parse_result,
                 handed_out, calls, exit_code, ret_line>>

\* An error or end-of-stream message is posted.
PostMatching == \E m \in Messages : m.type \in {Error, EOS} /\ Post(m)

\* A message of any other type is posted.
PostOther == \E m \in Messages : m.type \notin {Error, EOS} /\ Post(m)

\* Inside gst_bus_timed_pop_filtered (line 159): the pending message at the
\* head is not in the mask; the library drops it and keeps waiting.
PopDiscard ==
  /\ pc = "waiting"
  /\ queue # <<>>
  /\ ~Matches(Head(queue), WaitTypes)
  /\ queue' = Tail(queue)
  /\ UNCHANGED <<pc, pipeline_result, pipeline, bus, msg_ptr, message, parse_result,
                 handed_out, calls, exit_code, ret_line>>

\* Lines 60-69: the calls and prints of the dispatch on message m held by h.
Dispatch(h, m) ==
  <<Call("GST_MESSAGE_TYPE", h, "", "")>>
    \o (IF Error = message_type(m)
          THEN message_parse_error_calls(h, m)
                 \o (IF message_parse_error(m).has_value
                       THEN <<FmtPrint("Error received from element"),
                              FmtPrint("Debugging information")>>
                       ELSE <<>>)
          ELSE <<Call("GST_MESSAGE_TYPE", h, "", "")>>
                 \o (IF EOS = message_type(m)
                       THEN <<FmtPrint("End-Of-Stream reached.")>>
                       ELSE <<>>))

\* Lines 49-69: the wait returns the pending message at the head, which is in
\* the mask; msg_ptr takes it and the dispatch runs.
PopDeliver ==
  /\ pc = "waiting"
  /\ queue # <<>>
  /\ Matches(Head(queue), WaitTypes)
  /\ LET m == Head(queue)
         msg == bus_timed_pop_filtered(GstMessageHandle)
     IN /\ queue' = Tail(queue)
        /\ message' = m
        /\ msg_ptr' = msg.value
        /\ parse_result' =
             IF Error = message_type(m) THEN message_parse_error(m) ELSE NotParsed
        /\ handed_out' =
             handed_out \cup {GstMessageHandle}
               \cup (IF Error = message_type(m)
                       THEN {ExtractedError(m), ExtractedDebug(m)} \ {NULL}
                       ELSE {})
        /\ calls' = calls
             \o <<Call("gst_bus_timed_pop_filtered", bus, "", GstMessageHandle)>>
             \o Dispatch(msg.value, m)
  /\ pc' = "dispatched"
  /\ UNCHANGED <<pipeline_result, pipeline, bus, exit_code, ret_line>>

\* A plausible slip: the return of line 55 is missing, and control falls
\* through to the dispatch with no message.
PopNullFallsThrough(r) ==
  /\ pc = "waiting"
  /\ r \in SetStateResults(pipeline)
  /\ pc' = "dispatched"
  /\ calls' = calls
       \o <<Call("gst_bus_timed_pop_filtered", bus, "", NULL),
            FmtPrint("Unexpected NULL message from bus.")>>
       \o BestEffortNull(pipeline, r)
  /\ UNCHANGED <<pipeline_result, pipeline, bus, msg_ptr, message, parse_result,
                 queue, handed_out, exit_code, ret_line>>

\* Lines 49-56: the wait returns no message.
PopNull(r) ==
  /\ pc = "waiting"
  /\ r \in SetStateResults(pipeline)
  /\ ~bus_timed_pop_filtered(NULL).has_value
  /\ Return(EXIT_FAILURE, 55,
            <<Call("gst_bus_timed_pop_filtered", bus, "", NULL),
              FmtPrint("Unexpected NULL message from bus.")>>
              \o BestEffortNull(pipeline, r)
              \o ScopeExit(NULL, bus, pipeline, pipeline_result))
  /\ UNCHANGED <<pipeline_result, pipeline, bus, msg_ptr, message, parse_result,
                 queue, handed_out>>

\* A plausible slip: the result of the final state change is ignored.
FinalExitIgnoringResult(r) == EXIT_SUCCESS

\* Lines 72-77: the value returned after the final state change.
FinalExit(r) ==
  IF r = GST_STATE_CHANGE_FAILURE THEN EXIT_FAILURE ELSE EXIT_SUCCESS

\* Lines 71-78: free resources.
Teardown(r) ==
  /\ pc = "dispatched"
  /\ r \in SetStateResults(pipeline)
  /\ Return(FinalExit(r), IF r = GST_STATE_CHANGE_FAILURE THEN 74 ELSE 77,
            BestEffortNull(pipeline, r)
              \o ScopeExit(msg_ptr, bus, pipeline, pipeline_result))
  /\ UNCHANGED <<pipeline_result, pipeline, bus, msg_ptr, message, parse_result,
                 queue, handed_out>>

-----------------------------------------------------------------------------
(* Specifications.                                                         *)

\* The steps of tutorial_main when the wait honours GST_CLOCK_TIME_NONE: it
\* ends only with a message.
Driver ==
  \/ \E element \in {NULL, GstElementHandle}, error \in {NULL, GErrorHandle} :
       BuildPipeline(element, error)
  \/ \E r \in GstStateChangeReturn : StartPlaying(r)
  \/ GetBus
  \/ \E r \in GstStateChangeReturn : GetBusNull(r)
  \/ PopDiscard
  \/ PopDeliver
  \/ \E r \in GstStateChangeReturn : Teardown(r)

NextBlocking == Driver \/ PostMatching \/ PostOther

\* Next also lets the wait return no message, the case lines 50-56 handle.
Next == NextBlocking \/ \E r \in GstStateChangeReturn : PopNull(r)

Spec == Init /\ [][Next]_vars

\* The wait blocks until a matching message arrives, the program runs whenever
\* it can, and the library keeps posting: an error or end-of-stream message is
\* posted eventually.
BlockingSpec ==
  /\ Init
  /\ [][NextBlocking]_vars
  /\ WF_vars(Driver)
  /\ SF_vars(PostMatching)

-----------------------------------------------------------------------------
(* Reading the history.                                                    *)

ReleaseOps == {"gst_object_unref", "g_error_free", "gst_message_unref", "g_free"}

\* Calls that take a handle of the program.
HandleOps ==
  {"gst_element_set_state", "gst_element_get_bus", "gst_bus_timed_pop_filtered",
   "GST_MESSAGE_TYPE", "gst_message_parse_error"}

\* Positions in the history of the releases of h.
Releases(h) == {i \in DOMAIN calls : calls[i].op \in ReleaseOps /\ calls[i].h = h}

\* Positions of the calls of op with argument arg.
CallsOf(op, arg) == {i \in DOMAIN calls : calls[i].op = op /\ calls[i].arg = arg}

Printed(line) == CallsOf("fmt::print", line) # {}

Before(I, J) == \A i \in I, j \in J : i < j

PlayingCalls == CallsOf("gst_element_set_state", "GST_STATE_PLAYING")
NullCalls == CallsOf("gst_element_set_state", "GST_STATE_NULL")
Failed(I) == \E i \in I : calls[i].ret = GST_STATE_CHANGE_FAILURE

BusObtained == \E i \in CallsOf("gst_element_get_bus", "") : calls[i].ret # NULL
MessageReceived ==
  \E i \in CallsOf("gst_bus_timed_pop_filtered", "") : calls[i].ret # NULL

\* The native resources of the ownership contract.
Resources ==
  {GstElementHandle, GErrorHandle, GstBusHandle, GstMessageHandle, MsgErrorHandle}

-----------------------------------------------------------------------------
(* Claims.                                                                 *)

\* C1: when tutorial_main has returned, every native resource the library
\* handed out (element, bus, error, message) has been released exactly once,
\* and nothing else has been released, whatever gst_parse_launch returned.
C1_ReleasedExactlyOnce ==
  pc = "done" =>
    \A h \in Resources :
      Cardinality(Releases(h)) = (IF h \in handed_out THEN 1 ELSE 0)

\* C2: on every return of tutorial_main with a pipeline built,
\* gst_element_set_state(pipeline, GST_STATE_NULL) has been called.
C2_NullBeforeEveryExit ==
  (pc = "done" /\ pipeline # NULL) => NullCalls # {}

\* C3: tutorial_main returns EXIT_SUCCESS iff construction succeeded, the
\* transition to playing did not report failure, the bus was obtained, a
\* message was received and the final transition to null did not report
\* failure; in every other case it returns EXIT_FAILURE.
C3_ExitCode ==
  pc = "done" =>
    /\ exit_code \in {EXIT_SUCCESS, EXIT_FAILURE}
    /\ exit_code = EXIT_SUCCESS <=>
         /\ pipeline_result.has_value
         /\ PlayingCalls # {} /\ ~Failed(PlayingCalls)
         /\ BusObtained
         /\ MessageReceived
         /\ NullCalls # {} /\ ~Failed(NullCalls)

\* A run that received an error-tagged message and still returned success.
C3_Witness ==
  /\ pc = "done"
  /\ exit_code = EXIT_SUCCESS
  /\ message.type = Error

\* C4: a run whose received message is error-tagged and carries its error
\* (the unreachable-URI case) has printed the element-error line, then the
\* debugging-information line, and returns a failure exit code.
C4_ErrorMessageFails ==
  (pc = "done" /\ MessageReceived /\ message.type = Error /\ message.has_error) =>
    /\ Printed("Error received from element")
    /\ Printed("Debugging information")
    /\ Before(CallsOf("fmt::print", "Error received from element"),
              CallsOf("fmt::print", "Debugging information"))
    /\ exit_code = EXIT_FAILURE

\* C5: parse_launch returns either an error wrapping a non-null GError or a
\* success wrapping a non-null element; never a success wrapping null.
C5_ParseLaunchResult ==
  \A i \in DOMAIN calls :
    calls[i].op = "parse_launch" =>
      /\ calls[i].arg \in {"value", "error"}
      /\ calls[i].ret # NULL

\* C6 as stated: message_parse_error fails iff the message carries no error;
\* otherwise it returns the error text and the debug text of the payload, and
\* the error text is not empty.
C6_Original ==
  parse_result.called =>
    /\ ~parse_result.has_value <=> ~message.has_error
    /\ parse_result.has_value =>
         /\ parse_result.first = message.text
         /\ message.debug # NULL => parse_result.second = message.debug
         /\ parse_result.first # ""

\* C6, amended: message_parse_error fails iff the message carries no error;
\* otherwise it returns the payload's error text unchanged (so empty exactly
\* when the payload's text is empty) and the payload's debug text, or the
\* literal "(NULL)" when the payload has no debug text.
C6_ParseError ==
  parse_result.called =>
    /\ message.type = Error
    /\ ~parse_result.has_value <=> ~message.has_error
    /\ ~parse_result.has_value => parse_result.error = "No error found in message"
    /\ parse_result.has_value =>
         /\ parse_result.first = message.text
         /\ parse_result.second =
              (IF message.debug = NULL THEN "(NULL)" ELSE message.debug)

\* An error payload without debug text has been parsed into a pair.
C6_Witness ==
  /\ parse_result.called
  /\ parse_result.has_value
  /\ message.debug = NULL
  /\ parse_result.second = "(NULL)"

Terminated == pc = "done"

\* C7: the wait is left only by the delivery of the pending message at the
\* head of the bus, whose type is Error or EOS; and, the library eventually
\* posting such a message, every run of tutorial_main terminates.
C7_WaitEndsOnlyOnMatch ==
  /\ [][(pc = "waiting" /\ pc' # "waiting") =>
          /\ queue # <<>>
          /\ Head(queue).type \in {Error, EOS}
          /\ message' = Head(queue)
          /\ msg_ptr' = GstMessageHandle]_vars
  /\ <>Terminated

\* A run that left the wait with a message and returned.
C7_Witness ==
  /\ pc = "done"
  /\ msg_ptr = GstMessageHandle
  /\ message.type \in {Error, EOS}
  /\ ret_line \in {74, 77}

MessageInspections ==
  {i \in DOMAIN calls :
     calls[i].op \in {"GST_MESSAGE_TYPE", "gst_message_parse_error"}}

\* C8 as stated: the message is released before the final transition to the
\* null state and before the bus and the pipeline are released.
C8_Original ==
  (pc = "done" /\ MessageReceived) =>
    /\ Cardinality(Releases(GstMessageHandle)) = 1
    /\ Before(MessageInspections, Releases(GstMessageHandle))
    /\ Before(Releases(GstMessageHandle), NullCalls)
    /\ Before(Releases(GstMessageHandle), Releases(GstBusHandle))
    /\ Before(Releases(GstMessageHandle), Releases(GstElementHandle))

\* C8, amended: the message is released once, when tutorial_main returns:
\* after its payload has been inspected and after the final transition to the
\* null state has been requested, and before the bus and the pipeline are
\* released.
C8_MessageRelease ==
  /\ (pc # "done" /\ MessageReceived) => Releases(GstMessageHandle) = {}
  /\ (pc = "done" /\ MessageReceived) =>
       /\ Cardinality(Releases(GstMessageHandle)) = 1
       /\ Cardinality(Releases(GstBusHandle)) = 1
       /\ Cardinality(Releases(GstElementHandle)) = 1
       /\ NullCalls # {}
       /\ Before(MessageInspections, Releases(GstMessageHandle))
       /\ Before(NullCalls, Releases(GstMessageHandle))
       /\ Before(Releases(GstMessageHandle), Releases(GstBusHandle))
       /\ Before(Releases(GstMessageHandle), Releases(GstElementHandle))

\* A run that received a message and returned.
C8_Witness ==
  /\ pc = "done"
  /\ MessageReceived
  /\ Releases(GstMessageHandle) # {}

\* The control state of the program, in the words of the design.
Phase ==
  CASE pc = "start" -> "Uninitialized"
    [] pc = "built" -> "PipelineBuilt"
    [] pc = "playing" -> "Playing"
    [] pc = "waiting" -> "WaitingOnBus"
    [] pc = "dispatched" ->
         IF MessageReceived /\ message.type = Error THEN "ErrorReceived"
         ELSE IF MessageReceived /\ message.type = EOS THEN "EosReceived"
         ELSE "OtherReceived"
    [] pc = "done" -> IF ret_line \in {74, 77} THEN "Stopped" ELSE "FailureExit"

DesignArrows ==
  {<<"Uninitialized", "PipelineBuilt">>, <<"PipelineBuilt", "Playing">>,
   <<"Playing", "WaitingOnBus">>, <<"WaitingOnBus", "ErrorReceived">>,
   <<"WaitingOnBus", "EosReceived">>, <<"ErrorReceived", "Stopped">>,
   <<"EosReceived", "Stopped">>}

FailureArrows ==
  {<<"Uninitialized", "FailureExit">>, <<"PipelineBuilt", "FailureExit">>,
   <<"Playing", "FailureExit">>, <<"WaitingOnBus", "FailureExit">>}

\* C9 as stated: control moves only along Uninitialized, PipelineBuilt,
\* Playing, WaitingOnBus, ErrorReceived or EosReceived, Stopped; the only
\* branch is at message receipt, and a run that has returned is Stopped.
C9_Original ==
  /\ [][Phase' # Phase => <<Phase, Phase'>> \in DesignArrows]_vars
  /\ [](pc = "done" => Phase = "Stopped")

\* C9, amended: control moves only along Uninitialized, PipelineBuilt,
\* Playing, WaitingOnBus, ErrorReceived or EosReceived, Stopped, in that
\* order, with no state skipped or revisited, or leaves that sequence for a
\* failure exit from one of its first four states (construction failed,
\* playing failed, no bus, no message); no other message type is dispatched.
C9_ControlOrder ==
  [][Phase' # Phase => <<Phase, Phase'>> \in DesignArrows \cup FailureArrows]_vars

\* A run that went through the whole sequence.
C9_Witness == Phase = "Stopped"

\* C10: every library call that takes a handle is made with a handle that is
\* not null and not yet released, and the bus is released before the
\* pipeline.
C10_LiveHandles ==
  /\ \A i \in DOMAIN calls :
       calls[i].op \in HandleOps =>
         /\ calls[i].h # NULL
         /\ \A j \in Releases(calls[i].h) : i < j
  /\ Before(Releases(GstBusHandle), Releases(GstElementHandle))

====
